---- MODULE Spec2Model ----
(***************************************************************************)
(* Group/Array hierarchy of napari_hierarchical/model.py, with the viewer  *)
(* layers the arrays are bound to and the event propagation between them.  *)
(*                                                                         *)
(* Arrays and groups are numbered in order of construction; arrays[a] and  *)
(* groups[g] are the objects' fields.  Layers are objects of the host      *)
(* viewer: they exist from the start, and the host may rename them or      *)
(* toggle their visibility at any time.  A layer's name and visible        *)
(* emitters hold their callbacks as a sequence of the subscribed arrays,   *)
(* in calling order.                                                       *)
(***************************************************************************)
EXTENDS Naturals, Sequences, FiniteSets

VARIABLES arrays, groups, layers, log, err

\* rdr is the reader plugin of napari_bioimage/_reader.py with its controller;
\* smp is the sample-data plugin of napari_dataset/sample_data/pollen.py with
\* its file, controller and viewer.
VARIABLES rdr, smp

vars == <<arrays, groups, layers, log, err, rdr, smp>>

\* ------------------------------------------------------------------ bounds
MaxArrays == 2
MaxGroups == 2
MaxPathList == 2
MaxCalls == 6
MaxTreeGroups == 4
MaxTreeArrays == 2

\* ------------------------------------------------------------- value sets
None == "None"
NoParent == 0
Names == {"a", "b"}
GroupNames == {"g"}
Layers == {"L1", "L2"}
TriTrue == "True"
TriFalse == "False"

BoolStr(b) == IF b THEN TriTrue ELSE TriFalse

Range(s) == {s[i] : i \in DOMAIN s}

\* ------------------------------------------------- derived array properties
\* st is the record [arrays, groups, layers, log, err] a handler works on.

Array_loaded(st, a) == st.arrays[a].layer # None

Array_visible(st, a) ==
    /\ st.arrays[a].layer # None
    /\ st.layers[st.arrays[a].layer].visible

\* ------------------------------------------------------------- iteration
RECURSIVE iter_arrays(_, _, _)
RECURSIVE iter_arrays_of(_, _)

\* iter_arrays yielding the child groups' arrays before the group's own.
iter_arrays_children_first(st, g, recursive) ==
    (IF recursive THEN iter_arrays_of(st, st.groups[g].children) ELSE <<>>)
        \o st.groups[g].arrays

iter_arrays_of(st, cs) ==
    IF cs = <<>> THEN <<>>
    ELSE iter_arrays(st, Head(cs), TRUE) \o iter_arrays_of(st, Tail(cs))

iter_arrays(st, g, recursive) ==
    st.groups[g].arrays
        \o (IF recursive THEN iter_arrays_of(st, st.groups[g].children) ELSE <<>>)

RECURSIVE iter_children(_, _, _)
RECURSIVE iter_children_of(_, _)

iter_children_of(st, cs) ==
    IF cs = <<>> THEN <<>>
    ELSE iter_children(st, Head(cs), TRUE) \o iter_children_of(st, Tail(cs))

iter_children(st, g, recursive) ==
    st.groups[g].children
        \o (IF recursive THEN iter_children_of(st, st.groups[g].children) ELSE <<>>)

\* ------------------------------------------------ derived group properties
\* Group.loaded counting only the group's own arrays.
Group_loaded_own_arrays(st, g) ==
    LET it == iter_arrays(st, g, FALSE)
        n == Len(it)
        n_loaded == Cardinality({i \in 1..n : Array_loaded(st, it[i])})
    IN  IF n_loaded = 0 THEN TriFalse
        ELSE IF n_loaded = n THEN TriTrue
        ELSE None

Group_loaded(st, g) ==
    LET it == iter_arrays(st, g, TRUE)
        n == Len(it)
        n_loaded == Cardinality({i \in 1..n : Array_loaded(st, it[i])})
    IN  IF n_loaded = 0 THEN TriFalse
        ELSE IF n_loaded = n THEN TriTrue
        ELSE None

\* Group.visible comparing n_visible with the number of all arrays.
Group_visible_of_all(st, g) ==
    LET it == iter_arrays(st, g, TRUE)
        n == Len(it)
        n_visible == Cardinality({i \in DOMAIN it : Array_visible(st, it[i])})
    IN  IF n_visible = 0 THEN TriFalse
        ELSE IF n_visible = n THEN TriTrue
        ELSE None

\* Group.visible counting arrays whose layer flag is set among the loaded ones
\* of the group's own arrays only.
Group_visible_own_arrays(st, g) ==
    LET it == iter_arrays(st, g, FALSE)
        n_loaded == Cardinality({i \in DOMAIN it : Array_loaded(st, it[i])})
        n_visible == Cardinality({i \in DOMAIN it : Array_visible(st, it[i])})
    IN  IF n_visible = 0 THEN TriFalse
        ELSE IF n_visible = n_loaded THEN TriTrue
        ELSE None

Group_visible(st, g) ==
    LET it == iter_arrays(st, g, TRUE)
        n_loaded == Cardinality({i \in DOMAIN it : Array_loaded(st, it[i])})
        n_visible == Cardinality({i \in DOMAIN it : Array_visible(st, it[i])})
    IN  IF n_visible = 0 THEN TriFalse
        ELSE IF n_visible = n_loaded THEN TriTrue
        ELSE None

\* ------------------------------------------------------- event propagation
\* log holds the loaded/visible events emitted by the last operation, in
\* emission order.  A Group event has src = the position in log of the Array
\* event it carries as source_array_event (and source_event = "array"); an Array
\* event has src = 0 and source_event = what it carries as source_event: the
\* layer whose visible event it answers, or "layer" for the Array's own
\* layer-attribute event.

Event(node, isGroup, kind, value, src, source_event) ==
    [node |-> node, isGroup |-> isGroup, kind |-> kind, value |-> value,
     src |-> src, source_event |-> source_event]

\* _emit_loaded_event without the call on the parent.
Group_emit_loaded_event_no_parent(st, g, source_array_event) ==
    [st EXCEPT !.log = Append(@,
        Event(g, TRUE, "loaded", Group_loaded(st, g), source_array_event, "array"))]

RECURSIVE Group_emit_loaded_event(_, _, _)
Group_emit_loaded_event(st, g, source_array_event) ==
    LET st1 == [st EXCEPT !.log = Append(@,
                   Event(g, TRUE, "loaded", Group_loaded(st, g),
                         source_array_event, "array"))]
    IN  IF st.groups[g].parent # NoParent
        THEN Group_emit_loaded_event(st1, st.groups[g].parent, source_array_event)
        ELSE st1

RECURSIVE Group_emit_visible_event(_, _, _)
\* _emit_visible_event carrying the group's loaded state as its value.
Group_emit_visible_event_loaded_value(st, g, source_array_event) ==
    LET st1 == [st EXCEPT !.log = Append(@,
                   Event(g, TRUE, "visible", Group_loaded(st, g),
                         source_array_event, "array"))]
    IN  IF st.groups[g].parent # NoParent
        THEN Group_emit_visible_event(st1, st.groups[g].parent, source_array_event)
        ELSE st1

Group_emit_visible_event(st, g, source_array_event) ==
    LET st1 == [st EXCEPT !.log = Append(@,
                   Event(g, TRUE, "visible", Group_visible(st, g),
                         source_array_event, "array"))]
    IN  IF st.groups[g].parent # NoParent
        THEN Group_emit_visible_event(st1, st.groups[g].parent, source_array_event)
        ELSE st1

\* event is the position in log of the Array event being handled.
Array_on_loaded_event(st, a, event) ==
    IF st.arrays[a].parent # NoParent
    THEN Group_emit_loaded_event(st, st.arrays[a].parent, event)
    ELSE st

Array_on_visible_event(st, a, event) ==
    IF st.arrays[a].parent # NoParent
    THEN Group_emit_visible_event(st, st.arrays[a].parent, event)
    ELSE st

\* self.events.loaded(...): the event is emitted, then its one callback runs.
\* seen records the name the Array has when it emits an event.
Array_emit_loaded_event(st, a, source_event) ==
    LET st1 == [st EXCEPT !.log = Append(@,
                   Event(a, FALSE, "loaded", BoolStr(Array_loaded(st, a)),
                         0, source_event)),
                          !.seen = Append(@, st.arrays[a].name)]
    IN  Array_on_loaded_event(st1, a, Len(st1.log))

Array_emit_visible_event(st, a, source_event) ==
    LET st1 == [st EXCEPT !.log = Append(@,
                   Event(a, FALSE, "visible", BoolStr(Array_visible(st, a)),
                         0, source_event)),
                          !.seen = Append(@, st.arrays[a].name)]
    IN  Array_on_visible_event(st1, a, Len(st1.log))

\* A failed assert: the exception leaves every handler on the stack, so
\* nothing after it runs (each handler below does nothing once st.err).
AssertionError(st) == [st EXCEPT !.err = TRUE]

\* ------------------------------------------------------------- name sync
\* Array.name = n goes through the evented model's setter, which emits the
\* name event (calling _on_name_event) only when the value changed; layer.name
\* = n returns at once when n is the layer's name and otherwise calls the
\* layer's name callbacks in order.  calls counts the invocations of
\* _on_name_event, _on_layer_name_event and _on_layer_event in the operation
\* under way.
RECURSIVE Array_set_name(_, _, _)
RECURSIVE Array_on_name_event(_, _)
RECURSIVE Layer_set_name(_, _, _)
RECURSIVE Layer_emit_name(_, _)
RECURSIVE Array_on_layer_name_event(_, _)

\* Array.name = n emitting the name event even when n is the current name.
Array_set_name_always_emits(st, a, n) ==
    IF st.err THEN st
    ELSE Array_on_name_event([st EXCEPT !.arrays[a].name = n], a)

Array_set_name(st, a, n) ==
    IF st.err \/ st.arrays[a].name = n THEN st
    ELSE Array_on_name_event([st EXCEPT !.arrays[a].name = n], a)

Array_on_name_event(st, a) ==
    LET st0 == [st EXCEPT !.calls = @ + 1]
    IN  IF st.arrays[a].layer # None
        THEN Layer_set_name(st0, st.arrays[a].layer, st.arrays[a].name)
        ELSE st0

Layer_set_name(st, l, n) ==
    IF st.err \/ st.layers[l].name = n THEN st
    ELSE Layer_emit_name([st EXCEPT !.layers[l].name = n], st.layers[l].nameCbs)

Layer_emit_name(st, cbs) ==
    IF cbs = <<>> \/ st.err THEN st
    ELSE Layer_emit_name(Array_on_layer_name_event(st, Head(cbs)), Tail(cbs))

Array_on_layer_name_event(st, a) ==
    LET st0 == [st EXCEPT !.calls = @ + 1]
    IN  IF st.arrays[a].layer = None THEN AssertionError(st0)
        ELSE Array_set_name(st0, a, st.layers[st.arrays[a].layer].name)

\* ------------------------------------------------------- layer visibility
\* event is the layer whose visible event is being handled.
Array_on_layer_visible_event(st, a, event) ==
    IF st.arrays[a].layer = None THEN AssertionError(st)
    ELSE Array_emit_visible_event(st, a, event)

RECURSIVE Layer_emit_visible(_, _, _)
Layer_emit_visible(st, l, cbs) ==
    IF cbs = <<>> \/ st.err THEN st
    ELSE Layer_emit_visible(Array_on_layer_visible_event(st, Head(cbs), l),
                            l, Tail(cbs))

\* layer.visible = v: the flag is stored and the visible event is emitted,
\* whether or not the flag changed.
Layer_set_visible(st, l, v) ==
    Layer_emit_visible([st EXCEPT !.layers[l].visible = v], l, st.layers[l].visCbs)

\* ------------------------------------------------------------ layer binding
\* emitter.connect puts a new callback first and ignores one already there;
\* emitter.disconnect removes it when it is there.
\* emitter.disconnect leaving the callback where it is.
Disconnect_nothing(cbs, a) == cbs

Connect(cbs, a) == IF a \in Range(cbs) THEN cbs ELSE <<a>> \o cbs
Disconnect(cbs, a) == SelectSeq(cbs, LAMBDA x : x # a)

\* _on_layer_event taking the layer's name after the two events, not before.
Array_on_layer_event_name_last(st, a) ==
    LET st0 == [st EXCEPT !.calls = @ + 1]
        st1 == Array_emit_loaded_event(st0, a, "layer")
        st2 == Array_emit_visible_event(st1, a, "layer")
    IN  IF st.arrays[a].layer # None
        THEN Array_set_name(st2, a, st.layers[st.arrays[a].layer].name)
        ELSE st2

Array_on_layer_event(st, a) ==
    LET st0 == [st EXCEPT !.calls = @ + 1]
        st1 == IF st.arrays[a].layer # None
               THEN Array_set_name(st0, a, st.layers[st.arrays[a].layer].name)
               ELSE st0
        st2 == IF st1.err THEN st1 ELSE Array_emit_loaded_event(st1, a, "layer")
    IN  IF st2.err THEN st2 ELSE Array_emit_visible_event(st2, a, "layer")

\* __setattr__ without the disconnect from the previous layer.
Array_setattr_layer_keep_old(st, a, value) ==
    LET old == st.arrays[a].layer
        st2 == [st EXCEPT !.arrays[a].layer = value]
        st3 == IF value # old THEN Array_on_layer_event(st2, a) ELSE st2
    IN  IF st3.err \/ st3.arrays[a].layer = None THEN st3
        ELSE [st3 EXCEPT !.layers[st3.arrays[a].layer].nameCbs = Connect(@, a),
                         !.layers[st3.arrays[a].layer].visCbs = Connect(@, a)]

Array_setattr_layer(st, a, value) ==
    LET old == st.arrays[a].layer
        st1 == IF old # None
               THEN [st EXCEPT !.layers[old].nameCbs = Disconnect(@, a),
                               !.layers[old].visCbs = Disconnect(@, a)]
               ELSE st
        st2 == [st1 EXCEPT !.arrays[a].layer = value]
        st3 == IF value # old THEN Array_on_layer_event(st2, a) ELSE st2
    IN  IF st3.err \/ st3.arrays[a].layer = None THEN st3
        ELSE [st3 EXCEPT !.layers[st3.arrays[a].layer].nameCbs = Connect(@, a),
                         !.layers[st3.arrays[a].layer].visCbs = Connect(@, a)]

\* --------------------------------------------------------------- show/hide
\* Array.show doing nothing, instead of failing, without a bound layer.
Array_show_or_skip(st, a) ==
    IF st.arrays[a].layer = None THEN st
    ELSE Layer_set_visible(st, st.arrays[a].layer, TRUE)

Array_show(st, a) ==
    IF st.arrays[a].layer = None THEN AssertionError(st)
    ELSE Layer_set_visible(st, st.arrays[a].layer, TRUE)

Array_hide(st, a) ==
    IF st.arrays[a].layer = None THEN AssertionError(st)
    ELSE Layer_set_visible(st, st.arrays[a].layer, FALSE)

RECURSIVE Group_show_each(_, _)
Group_show_each(st, it) ==
    IF it = <<>> \/ st.err THEN st
    ELSE Group_show_each(
            IF Array_loaded(st, Head(it)) THEN Array_show(st, Head(it)) ELSE st,
            Tail(it))

RECURSIVE Group_hide_each(_, _)
Group_hide_each(st, it) ==
    IF it = <<>> \/ st.err THEN st
    ELSE Group_hide_each(
            IF Array_loaded(st, Head(it)) THEN Array_hide(st, Head(it)) ELSE st,
            Tail(it))

\* Group.show over the group's own arrays only.
Group_show_own_arrays(st, g) == Group_show_each(st, iter_arrays(st, g, FALSE))

\* The generator is lazy, but no callback changes the tree, so the sequence
\* it yields is the one computed on entry.
Group_show(st, g) == Group_show_each(st, iter_arrays(st, g, TRUE))

\* Group.hide over the group's own arrays only.
Group_hide_own_arrays(st, g) == Group_hide_each(st, iter_arrays(st, g, FALSE))

Group_hide(st, g) == Group_hide_each(st, iter_arrays(st, g, TRUE))

\* ---------------------------------------------------- construction, clones
\* The keyword arguments of Array(...) are stored by the model's constructor,
\* not through Array.__setattr__: no layer callback is connected and no event
\* is emitted, whatever layer is given.
\* array_grouping_groups is a dict of str to str, held as its set of
\* <<key, value>> items; it starts empty.
Array_init(st, name, layer) ==
    [st EXCEPT !.arrays = Append(@,
        [name |-> name, layer |-> layer, parent |-> NoParent, agg |-> {}])]

\* d.update(e): the items of e, and those of d under other keys.
dict_update(d, e) == {p \in d : \A q \in e : q[1] # p[1]} \cup e

Group_init(st, name) ==
    [st EXCEPT !.groups = Append(@,
        [name |-> name, parent |-> NoParent, arrays |-> <<>>, children |-> <<>>])]

\* The parent-aware lists set the parent link of what is appended to them.
ArrayList_append(st, g, a) ==
    [st EXCEPT !.groups[g].arrays = Append(@, a), !.arrays[a].parent = g]

GroupList_append(st, g, c) ==
    [st EXCEPT !.groups[g].children = Append(@, c), !.groups[c].parent = g]

\* from_array leaving the new Array's array_grouping_groups empty.
from_array_without_grouping(st, a) ==
    Array_init(st, st.arrays[a].name, st.arrays[a].layer)

\* The new Array is the last of st.arrays afterwards.
from_array(st, a) ==
    LET st1 == Array_init(st, st.arrays[a].name, st.arrays[a].layer)
    IN  [st1 EXCEPT !.arrays[Len(st1.arrays)].agg = dict_update(@, st.arrays[a].agg)]

RECURSIVE from_group(_, _)
RECURSIVE from_group_arrays(_, _, _)
RECURSIVE from_group_children(_, _, _)

\* new_group.arrays.extend(Array.from_array(array) for array in group.arrays)
from_group_arrays(st, new_group, as) ==
    IF as = <<>> THEN st
    ELSE LET st1 == from_array(st, Head(as))
         IN  from_group_arrays(ArrayList_append(st1, new_group, Len(st1.arrays)),
                               new_group, Tail(as))

\* new_group.children.extend(Group.from_group(child) for child in group.children)
from_group_children(st, new_group, cs) ==
    IF cs = <<>> THEN st
    ELSE LET new_child == Len(st.groups) + 1
             st1 == from_group(st, Head(cs))
         IN  from_group_children(GroupList_append(st1, new_group, new_child),
                                 new_group, Tail(cs))

\* The new Group is number Len(st.groups) + 1 afterwards.
from_group(st, g) ==
    LET new_group == Len(st.groups) + 1
        st1 == Group_init(st, st.groups[g].name)
        st2 == from_group_arrays(st1, new_group, st.groups[g].arrays)
    IN  from_group_children(st2, new_group, st.groups[g].children)

\* ------------------------------------------------------------- tree shape
\* The ancestors of group g, nearest first: its parent, ..., the root.
RECURSIVE GroupAncestors(_, _)
GroupAncestors(gs, g) ==
    IF gs[g].parent = NoParent THEN <<>>
    ELSE <<gs[g].parent>> \o GroupAncestors(gs, gs[g].parent)

\* The ancestors of array a, nearest first: its parent, ..., the root.
ArrayAncestors(as, gs, a) ==
    IF as[a].parent = NoParent THEN <<>>
    ELSE <<as[a].parent>> \o GroupAncestors(gs, as[a].parent)

\* Number of groups / arrays in the subtree of g (what from_group creates).
SubtreeGroups(gs, g) == {g} \cup {c \in DOMAIN gs : g \in Range(GroupAncestors(gs, c))}
SubtreeArrays(as, gs, g) == {a \in DOMAIN as : g \in Range(ArrayAncestors(as, gs, a))}

\* ----------------------------------------------------------- reader plugin
\* A path argument is a string or a list of strings.
Paths == {"p", "q", "r"}
PathStr(p) == [isList |-> FALSE, items |-> <<p>>]
PathList(ps) == [isList |-> TRUE, items |-> ps]
PathArgs ==
    {PathStr(p) : p \in Paths}
        \cup {PathList(ps) : ps \in UNION {[1..n -> Paths] : n \in 0..MaxPathList}}

\* napari_get_reader taking the first element of any non-empty list.
napari_get_reader_first_of_any(accept, path) ==
    IF path.isList /\ Len(path.items) = 0
    THEN [result |-> None, consulted |-> <<>>]
    ELSE [result |-> IF path.items[1] \in accept THEN "reader_function" ELSE None,
          consulted |-> <<path.items[1]>>]

\* accept is the set of paths controller.can_read_image answers True for;
\* consulted is what it was called with.
napari_get_reader(accept, path) ==
    IF path.isList /\ Len(path.items) # 1
    THEN [result |-> None, consulted |-> <<>>]
    ELSE [result |-> IF path.items[1] \in accept THEN "reader_function" ELSE None,
          consulted |-> <<path.items[1]>>]

\* read is what controller.read_image was called with; out is the list of
\* tuples returned.
reader_function(path) == [read |-> <<path>>, out |-> << <<None>> >>]

RdrIdle ==
    [accept |-> {}, path |-> PathList(<<>>), result |-> "unset",
     consulted |-> <<>>, read |-> <<>>, out |-> <<>>]

\* ------------------------------------------------------ sample-data plugin
\* file is the state of temp_dir/pollen.h5: absent, empty (opened for writing,
\* nothing copied), partial (the copy broke off) or complete.  net is how the
\* download goes in this call and cur is what current_viewer() returns.
Viewers == {"V", "W"}
NetOutcomes == {"ok", "urlopen_fails", "copy_fails"}

make_sample_data(s, net, cur) ==
    LET fetch == s.file = "absent"
        file1 == IF ~fetch THEN s.file
                 ELSE IF net = "ok" THEN "complete"
                 ELSE IF net = "urlopen_fails" THEN "empty"
                 ELSE "partial"
        s1 == [s EXCEPT !.calls = @ + 1, !.file = file1,
                        !.fetches = IF fetch THEN @ + 1 ELSE @,
                        !.fetched = fetch, !.read = FALSE, !.added = 0,
                        !.raised = "none"]
        viewer == IF s.viewer # None THEN s.viewer ELSE cur
    IN  IF fetch /\ net # "ok" THEN [s1 EXCEPT !.raised = "network"]
        ELSE LET s2 == [s1 EXCEPT !.reads = Append(@, file1), !.read = TRUE]
             IN  IF viewer = None THEN [s2 EXCEPT !.raised = "assert"]
                 ELSE [s2 EXCEPT !.viewer = viewer, !.docks = @ + 2, !.added = 2]

\* calls, fetches: calls of make_sample_data and of urlopen so far; reads: the
\* file states read_dataset was given; docks: dock widgets added; fetched,
\* read, added, raised: what the last call did.
SmpIdle ==
    [file |-> "absent", calls |-> 0, fetches |-> 0, reads |-> <<>>, docks |-> 0,
     viewer |-> None, fetched |-> FALSE, read |-> FALSE, added |-> 0,
     raised |-> "none"]

\* ---------------------------------------------------------------- actions
\* The state a handler starts from: nothing emitted, seen or counted yet.
St == [arrays |-> arrays, groups |-> groups, layers |-> layers,
       log |-> <<>>, err |-> FALSE, seen |-> <<>>, calls |-> 0]

Commit(st) ==
    /\ arrays' = st.arrays
    /\ groups' = st.groups
    /\ layers' = st.layers
    /\ log' = st.log
    /\ err' = st.err
    /\ UNCHANGED <<rdr, smp>>

\* No Group or Array is constructed yet.
InitModel ==
    /\ arrays = <<>>
    /\ groups = <<>>
    /\ layers = [l \in Layers |->
                    [name |-> IF l = "L1" THEN "a" ELSE "b", visible |-> TRUE,
                     nameCbs |-> <<>>, visCbs |-> <<>>]]
    /\ log = <<>>
    /\ err = FALSE

Init == InitModel /\ rdr = RdrIdle /\ smp = SmpIdle

\* Group(name=n)
NewGroup(n) ==
    /\ Len(groups) < MaxGroups
    /\ Commit(Group_init(St, n))

\* Array(name=n) and Array(name=n, layer=l)
NewArray(n, l) ==
    /\ Len(arrays) < MaxArrays
    /\ Commit(Array_init(St, n, l))

\* g.arrays.append(a): a has no parent yet, and g has no array of that name.
AppendArray(g, a) ==
    /\ arrays[a].parent = NoParent
    /\ \A b \in Range(groups[g].arrays) : arrays[b].name # arrays[a].name
    /\ Commit(ArrayList_append(St, g, a))

\* g.children.append(c): c has no parent yet and is not g or above g (the
\* groups form a forest), and g has no child of that name.
AppendChild(g, c) ==
    /\ c # g
    /\ groups[c].parent = NoParent
    /\ c \notin Range(GroupAncestors(groups, g))
    /\ \A d \in Range(groups[g].children) : groups[d].name # groups[c].name
    /\ Commit(GroupList_append(St, g, c))

\* a.layer = l  (l a layer or None)
SetLayer(a, l) ==
    Commit(Array_setattr_layer(St, a, l))

\* a.name = n
SetArrayName(a, n) ==
    Commit(Array_set_name(St, a, n))

\* The host renames layer l.
SetLayerName(l, n) ==
    Commit(Layer_set_name(St, l, n))

\* The host sets layer l's visibility flag.
SetLayerVisible(l, v) ==
    Commit(Layer_set_visible(St, l, v))

ArrayShow(a) == Commit(Array_show(St, a))

ArrayHide(a) == Commit(Array_hide(St, a))

GroupShow(g) == Commit(Group_show(St, g))

GroupHide(g) == Commit(Group_hide(St, g))

\* Array.from_array(a)
FromArray(a) ==
    /\ Len(arrays) < MaxArrays
    /\ Commit(from_array(St, a))

\* Group.from_group(g)
FromGroup(g) ==
    /\ Len(groups) + Cardinality(SubtreeGroups(groups, g)) <= MaxGroups
    /\ Len(arrays) + Cardinality(SubtreeArrays(arrays, groups, g)) <= MaxArrays
    /\ Commit(from_group(St, g))

Next ==
    \/ \E n \in GroupNames : NewGroup(n)
    \/ \E n \in Names, l \in Layers \cup {None} : NewArray(n, l)
    \/ \E g \in DOMAIN groups, a \in DOMAIN arrays : AppendArray(g, a)
    \/ \E g \in DOMAIN groups, c \in DOMAIN groups : AppendChild(g, c)
    \/ \E a \in DOMAIN arrays, l \in Layers \cup {None} : SetLayer(a, l)
    \/ \E a \in DOMAIN arrays, n \in Names : SetArrayName(a, n)
    \/ \E l \in Layers, n \in Names : SetLayerName(l, n)
    \/ \E l \in Layers, v \in BOOLEAN : SetLayerVisible(l, v)
    \/ \E a \in DOMAIN arrays : ArrayShow(a)
    \/ \E a \in DOMAIN arrays : ArrayHide(a)
    \/ \E g \in DOMAIN groups : GroupShow(g)
    \/ \E g \in DOMAIN groups : GroupHide(g)
    \/ \E a \in DOMAIN arrays : FromArray(a)
    \/ \E g \in DOMAIN groups : FromGroup(g)

Spec == Init /\ [][Next]_vars

\* The reader plugin on its own: the controller accepts some set of paths.
InitReader ==
    /\ InitModel
    /\ smp = SmpIdle
    /\ \E acc \in SUBSET Paths : rdr = [RdrIdle EXCEPT !.accept = acc]

\* The host asks for a reader of path.
GetReader(path) ==
    LET r == napari_get_reader(rdr.accept, path)
    IN  /\ rdr' = [rdr EXCEPT !.path = path, !.result = r.result,
                              !.consulted = r.consulted, !.read = <<>>, !.out = <<>>]
        /\ UNCHANGED <<arrays, groups, layers, log, err, smp>>

\* The host calls the reader it was given, with the path it asked about.
CallReader ==
    /\ rdr.result = "reader_function"
    /\ LET r == reader_function(rdr.path)
       IN  rdr' = [rdr EXCEPT !.read = r.read, !.out = r.out]
    /\ UNCHANGED <<arrays, groups, layers, log, err, smp>>

NextReader ==
    \/ \E path \in PathArgs : GetReader(path)
    \/ CallReader

SpecReader == InitReader /\ [][NextReader]_vars

\* Trees of groups and arrays on their own: more and deeper groups, sibling
\* groups, array_grouping_groups entries, and no change of layers.
TreeGroupNames == {"g", "h"}
GroupingKeys == {"k"}
GroupingValues == {"x"}

TreeNewGroup(n) ==
    /\ Len(groups) < MaxTreeGroups
    /\ Commit(Group_init(St, n))

TreeNewArray(n, l) ==
    /\ Len(arrays) < MaxTreeArrays
    /\ Commit(Array_init(St, n, l))

\* a.array_grouping_groups[k] = v
SetGrouping(a, k, v) ==
    Commit([St EXCEPT !.arrays[a].agg = dict_update(@, {<<k, v>>})])

TreeFromGroup(g) ==
    /\ Len(groups) + Cardinality(SubtreeGroups(groups, g)) <= MaxTreeGroups
    /\ Len(arrays) + Cardinality(SubtreeArrays(arrays, groups, g)) <= MaxTreeArrays
    /\ Commit(from_group(St, g))

NextTree ==
    \/ \E n \in TreeGroupNames : TreeNewGroup(n)
    \/ TreeNewArray("a", None) \/ TreeNewArray("b", "L1")
    \/ \E g \in DOMAIN groups, a \in DOMAIN arrays : AppendArray(g, a)
    \/ \E g, c \in DOMAIN groups : AppendChild(g, c)
    \/ \E a \in DOMAIN arrays, k \in GroupingKeys, v \in GroupingValues :
          SetGrouping(a, k, v)
    \/ \E g \in DOMAIN groups : TreeFromGroup(g)

SpecTree == Init /\ [][NextTree]_vars

\* The sample-data plugin on its own.
InitSample == InitModel /\ rdr = RdrIdle /\ smp = SmpIdle

MakeSampleData(net, cur) ==
    /\ smp.calls < MaxCalls
    /\ smp' = make_sample_data(smp, net, cur)
    /\ UNCHANGED <<arrays, groups, layers, log, err, rdr>>

NextSample == \E net \in NetOutcomes, cur \in Viewers \cup {None} : MakeSampleData(net, cur)

SpecSample == InitSample /\ [][NextSample]_vars

\* ================================================================ properties
Cur == [arrays |-> arrays, groups |-> groups, layers |-> layers,
        log |-> log, err |-> err, seen |-> <<>>, calls |-> 0]

\* The descendant arrays of g, by the parent links.
Descendants(g) == SubtreeArrays(arrays, groups, g)
LoadedDescendants(g) == {a \in Descendants(g) : arrays[a].layer # None}
VisibleDescendants(g) ==
    {a \in LoadedDescendants(g) : layers[arrays[a].layer].visible}

\* The tri-state law: False when no member of all is in some, True when all
\* are (and there is one), None otherwise.
TriState(some, all) ==
    IF some = {} THEN TriFalse ELSE IF some = all THEN TriTrue ELSE None

\* C1: for every Group g, g.loaded is False when no descendant array (recursive)
\* has a bound layer, True when every descendant array has one and there is at
\* least one, and None when a non-empty strict subset of them has one.
C1_GroupLoadedLaw ==
    \A g \in DOMAIN groups :
        Group_loaded(Cur, g) = TriState(LoadedDescendants(g), Descendants(g))

\* A group whose own array is unloaded and whose child group holds a loaded
\* array: loaded is None.
C1_Witness ==
    \E g \in DOMAIN groups, a, b \in DOMAIN arrays :
        /\ arrays[a].parent = g /\ arrays[a].layer = None
        /\ arrays[b].parent # g /\ b \in Descendants(g) /\ arrays[b].layer # None
        /\ Group_loaded(Cur, g) = None

\* C2: for every Group g, g.visible follows the tri-state law over the loaded
\* descendant arrays of g: False when no loaded descendant is visible, True
\* when every loaded descendant is visible and one is, None when some but not
\* all are; unloaded descendants do not count.
C2_GroupVisibleLaw ==
    \A g \in DOMAIN groups :
        Group_visible(Cur, g) = TriState(VisibleDescendants(g), LoadedDescendants(g))

\* A group with a visible array and a loaded, hidden array below a child
\* group: visible is None.
C2_Witness ==
    \E g \in DOMAIN groups, a, b \in DOMAIN arrays :
        /\ arrays[a].parent = g /\ a \in VisibleDescendants(g)
        /\ arrays[b].parent # g /\ b \in LoadedDescendants(g) \ VisibleDescendants(g)
        /\ Group_visible(Cur, g) = None

\* C3 as claimed: Group.visible is the tri-state law over ALL descendant arrays,
\* so a group with one visible and one unloaded array reports None.
C3_VisibleOverAllDescendants ==
    \A g \in DOMAIN groups :
        Group_visible(Cur, g) = TriState(VisibleDescendants(g), Descendants(g))

\* C3 as amended: Group.visible is True exactly when some descendant array is
\* visible and every LOADED descendant array is, and False exactly when none is
\* visible; unloaded descendants never turn True into None.
C3_VisibleOverLoadedOnly ==
    \A g \in DOMAIN groups :
        /\ Group_visible(Cur, g) = TriTrue
              <=> /\ VisibleDescendants(g) # {}
                  /\ LoadedDescendants(g) \subseteq VisibleDescendants(g)
        /\ Group_visible(Cur, g) = TriFalse <=> VisibleDescendants(g) = {}
        /\ (\E a \in Descendants(g) : arrays[a].layer = None)
              /\ VisibleDescendants(g) # {}
              /\ VisibleDescendants(g) = LoadedDescendants(g)
              => Group_visible(Cur, g) = TriTrue

\* A group with one visible array and one unloaded array, reporting True.
C3_Witness ==
    \E g \in DOMAIN groups, a, b \in DOMAIN arrays :
        /\ Descendants(g) = {a, b}
        /\ a \in VisibleDescendants(g)
        /\ arrays[b].layer = None
        /\ Group_visible(Cur, g) = TriTrue

\* C4: each loaded/visible event of an Array in log is followed at once by one
\* event of the same kind on each of the Array's ancestors, nearest first and
\* root last, each carrying that Array event as source_array_event; no other
\* Group event is in log (no Group that is not an ancestor emits, and an Array
\* without a parent is followed by no Group event).
C4_AncestorsInOrder ==
    /\ \A i \in DOMAIN log :
          ~log[i].isGroup =>
            LET anc == ArrayAncestors(arrays, groups, log[i].node)
            IN  /\ i + Len(anc) <= Len(log)
                /\ \A j \in 1..Len(anc) :
                      /\ log[i + j].isGroup
                      /\ log[i + j].node = anc[j]
                      /\ log[i + j].kind = log[i].kind
                      /\ log[i + j].src = i
                /\ {p \in DOMAIN log : log[p].isGroup /\ log[p].src = i}
                      = {i + j : j \in 1..Len(anc)}
    /\ \A p \in DOMAIN log :
          log[p].isGroup =>
            /\ log[p].src \in 1..(p - 1)
            /\ ~log[log[p].src].isGroup

\* A loaded event of an Array at depth 2 whose parent and root have emitted.
C4_Witness ==
    \E i \in DOMAIN log :
        /\ ~log[i].isGroup /\ log[i].kind = "loaded"
        /\ Len(ArrayAncestors(arrays, groups, log[i].node)) = 2
        /\ i + 2 <= Len(log)
        /\ log[i + 1].node = arrays[log[i].node].parent
        /\ log[i + 2].node = groups[arrays[log[i].node].parent].parent

\* The claims about what an operation does are stated of its result st on
\* every reachable state: st is what the action of that operation commits.

\* The events of array a in lg, and the Group events they were passed on as.
EventsOf(lg, a) ==
    {i \in DOMAIN lg :
        \/ ~lg[i].isGroup /\ lg[i].node = a
        \/ lg[i].isGroup /\ lg[i].src \in DOMAIN lg
              /\ ~lg[lg[i].src].isGroup /\ lg[lg[i].src].node = a}

\* No array is among the name or visible callbacks of a layer other than the
\* one it is bound to.
NoStaleCallback ==
    \A l \in Layers :
        \A a \in Range(layers[l].nameCbs) \cup Range(layers[l].visCbs) :
            arrays[a].layer = l

\* C5: an Array is a callback of no layer but the one it is bound to; replacing
\* its layer attribute leaves it a callback of the new layer (if any) and of no
\* other, so that a rename or visibility change of the replaced layer right
\* after neither renames the Array nor puts an event of it in log, and one of
\* the new layer does; in any state, a rename of a layer changes the name of
\* no Array bound to another layer (or to none), and setting a layer's
\* visibility flag puts no event of such an Array, nor of its ancestors on its
\* behalf, in log, while both reach every Array that observes the layer.
C5_OldLayerUnobserved ==
    /\ NoStaleCallback
    /\ \A a \in DOMAIN arrays, l \in Layers \cup {None} :
          LET st == Array_setattr_layer(St, a, l)
          IN  /\ st.arrays[a].layer = l
              /\ \A k \in Layers :
                    /\ a \in Range(st.layers[k].nameCbs) <=> k = l
                    /\ a \in Range(st.layers[k].visCbs) <=> k = l
    /\ \A a \in DOMAIN arrays, new \in Layers \cup {None} :
          LET old == arrays[a].layer
              st == [Array_setattr_layer(St, a, new) EXCEPT !.log = <<>>]
          IN  old # None /\ old # new =>
                /\ \A n \in Names :
                      Layer_set_name(st, old, n).arrays[a].name = st.arrays[a].name
                /\ \A v \in BOOLEAN :
                      EventsOf(Layer_set_visible(st, old, v).log, a) = {}
                /\ new # None =>
                      /\ \A n \in Names \ {st.layers[new].name} :
                            Layer_set_name(st, new, n).arrays[a].name = n
                      /\ \A v \in BOOLEAN :
                            EventsOf(Layer_set_visible(st, new, v).log, a) # {}
    /\ \A l \in Layers : \A n \in Names \ {layers[l].name} :
          LET st == Layer_set_name(St, l, n)
          IN  \A a \in DOMAIN arrays :
                /\ arrays[a].layer # l => st.arrays[a].name = arrays[a].name
                /\ a \in Range(layers[l].nameCbs) => st.arrays[a].name = n
    /\ \A l \in Layers, v \in BOOLEAN :
          LET st == Layer_set_visible(St, l, v)
          IN  \A a \in DOMAIN arrays :
                /\ arrays[a].layer # l => EventsOf(st.log, a) = {}
                /\ a \in Range(layers[l].visCbs) =>
                      \E i \in DOMAIN st.log :
                          st.log[i] = Event(a, FALSE, "visible", BoolStr(v), 0, l)

\* Array a observes L2 and not L1, array b of the same group observes L1, and
\* the last operation cleared L1's visibility flag: the event reached b (and
\* its parent), not a.
C5_Witness ==
    \E a, b \in DOMAIN arrays :
        /\ arrays[a].layer = "L2" /\ arrays[b].layer = "L1"
        /\ a \in Range(layers["L2"].visCbs) /\ a \notin Range(layers["L1"].visCbs)
        /\ b \in Range(layers["L1"].visCbs)
        /\ arrays[a].parent # NoParent /\ arrays[a].parent = arrays[b].parent
        /\ ~layers["L1"].visible
        /\ log # <<>> /\ log[1] = Event(b, FALSE, "visible", TriFalse, 0, "L1")
        /\ EventsOf(log, a) = {}

\* C6 as claimed: between operations, the name of every Array with a bound layer
\* is its layer's name; a rename of a layer gives its new name to every Array
\* bound to it, and a rename of an Array gives the Array's new name to its layer.
C6_NameSyncFixedPoint ==
    /\ \A a \in DOMAIN arrays :
          arrays[a].layer # None => arrays[a].name = layers[arrays[a].layer].name
    /\ \A l \in Layers, n \in Names :
          LET st == Layer_set_name(St, l, n)
          IN  \A a \in DOMAIN arrays : arrays[a].layer = l => st.arrays[a].name = n
    /\ \A a \in DOMAIN arrays, n \in Names :
          LET st == Array_set_name(St, a, n)
          IN  arrays[a].layer # None => st.layers[arrays[a].layer].name = n

\* C7 as claimed: the Array that from_array creates has no layer, whatever the
\* original's, so that hiding, showing or renaming it changes no layer and no
\* other Array; the same for every Array that from_group creates.
CloneIsIndependent(st, c) ==
    /\ st.arrays[c].layer = None
    /\ Array_hide(st, c).layers = st.layers
    /\ Array_show(st, c).layers = st.layers
    /\ \A n \in Names :
          /\ Array_set_name(st, c, n).layers = st.layers
          /\ \A a \in DOMAIN arrays : Array_set_name(st, c, n).arrays[a] = arrays[a]

C7_CloneUnbound ==
    /\ \A a \in DOMAIN arrays :
          LET st == from_array(St, a)
          IN  CloneIsIndependent(st, Len(st.arrays))
    /\ \A g \in DOMAIN groups :
          LET st == from_group(St, g)
          IN  \A c \in DOMAIN st.arrays \ DOMAIN arrays : CloneIsIndependent(st, c)

\* C8: Group.show() / hide() raises nothing, sets the visibility flag of the
\* layer of every loaded descendant array to true / false, and changes no
\* array (binding, name, parent), no group, and no layer that is bound to no
\* descendant array of the group; of the other layers it changes the flag only.
C8_ShowHide(st, g, v) ==
    /\ ~st.err
    /\ st.arrays = arrays
    /\ st.groups = groups
    /\ \A a \in LoadedDescendants(g) : st.layers[arrays[a].layer].visible = v
    /\ \A l \in Layers :
          IF \E a \in LoadedDescendants(g) : arrays[a].layer = l
          THEN st.layers[l] = [layers[l] EXCEPT !.visible = v]
          ELSE st.layers[l] = layers[l]

C8_GroupShowHideFrame ==
    \A g \in DOMAIN groups :
        /\ C8_ShowHide(Group_show(St, g), g, TRUE)
        /\ C8_ShowHide(Group_hide(St, g), g, FALSE)

\* A group was hidden: the layer of the loaded array of its child group is
\* hidden, its own unloaded array is as it was, the other layer is still
\* visible, and nothing was raised.
C8_Witness ==
    \E g \in DOMAIN groups, a, b \in DOMAIN arrays :
        /\ arrays[a].parent = g /\ arrays[a].layer = None
        /\ arrays[b].parent # g /\ b \in Descendants(g)
        /\ arrays[b].layer = "L1" /\ ~layers["L1"].visible /\ layers["L2"].visible
        /\ ~err
        /\ Len(log) = 3
        /\ log[1] = Event(b, FALSE, "visible", TriFalse, 0, "L1")
        /\ log[3] = Event(g, TRUE, "visible", TriFalse, 1, "array")

\* C9: Array.show() / hide() on an Array without a layer fails and changes
\* nothing (no layer, no array, no group, no event); on an Array with a layer it
\* sets that layer's visibility flag to true / false and does not fail.
C9_ShowHide(st, a, v) ==
    IF arrays[a].layer = None
    THEN /\ st.err
         /\ st.log = <<>>
         /\ st.arrays = arrays /\ st.groups = groups /\ st.layers = layers
    ELSE /\ ~st.err
         /\ st.layers[arrays[a].layer].visible = v
         /\ st.arrays = arrays /\ st.groups = groups

C9_ArrayShowHide ==
    \A a \in DOMAIN arrays :
        /\ C9_ShowHide(Array_show(St, a), a, TRUE)
        /\ C9_ShowHide(Array_hide(St, a), a, FALSE)

\* show() or hide() has failed on an Array without a layer that sits in a
\* group beside a loaded Array: nothing was emitted.
C9_Witness ==
    /\ err
    /\ log = <<>>
    /\ \E a, b \in DOMAIN arrays :
          /\ arrays[a].layer = None /\ arrays[a].parent # NoParent
          /\ arrays[b].layer # None /\ arrays[b].parent = arrays[a].parent

\* C10 as claimed: whenever the layer of an Array changes, each of its ancestor
\* Groups emits a loaded and a visible event, and whenever the visibility flag
\* of the layer an Array is bound to changes, each of its ancestor Groups emits
\* a visible event, however the Array came to be bound.
GroupEmitted(lg, g, kind) ==
    \E i \in DOMAIN lg : lg[i].isGroup /\ lg[i].node = g /\ lg[i].kind = kind

AncestorsNotified(st) ==
    \A a \in DOMAIN arrays :
        \A g \in Range(ArrayAncestors(arrays, groups, a)) :
            /\ st.arrays[a].layer # arrays[a].layer =>
                  GroupEmitted(st.log, g, "loaded") /\ GroupEmitted(st.log, g, "visible")
            /\ /\ arrays[a].layer # None
                /\ st.arrays[a].layer = arrays[a].layer
                /\ st.layers[arrays[a].layer].visible # layers[arrays[a].layer].visible
                => GroupEmitted(st.log, g, "visible")

C10_AncestorsNotified ==
    /\ \A a \in DOMAIN arrays, l \in Layers \cup {None} :
          AncestorsNotified(Array_setattr_layer(St, a, l))
    /\ \A l \in Layers, v \in BOOLEAN : AncestorsNotified(Layer_set_visible(St, l, v))
    /\ \A a \in DOMAIN arrays :
          AncestorsNotified(Array_show(St, a)) /\ AncestorsNotified(Array_hide(St, a))
    /\ \A g \in DOMAIN groups :
          AncestorsNotified(Group_show(St, g)) /\ AncestorsNotified(Group_hide(St, g))

\* C11 as claimed: within each Group no two Arrays of its arrays collection
\* share a name and no two Groups of its children collection share a name.
NoDuplicate(seq, nameOf(_)) ==
    \A i, j \in DOMAIN seq : i # j => nameOf(seq[i]) # nameOf(seq[j])

C11_UniqueNames ==
    \A g \in DOMAIN groups :
        /\ NoDuplicate(groups[g].arrays, LAMBDA a : arrays[a].name)
        /\ NoDuplicate(groups[g].children, LAMBDA c : groups[c].name)

\* C12: napari_get_reader returns the loader exactly when the path, or the one
\* element of a one-element list, is accepted by can_read_image, which is asked
\* about that path only and not at all for a list of another length; the loader
\* calls read_image once, with the path it is given, and returns a list of one
\* one-element tuple holding None.
IsOnePath(path) == ~path.isList \/ Len(path.items) = 1

C12_ReaderContract ==
    /\ rdr.result # "unset" =>
          /\ rdr.result \in {"reader_function", None}
          /\ rdr.result = "reader_function"
                <=> IsOnePath(rdr.path) /\ rdr.path.items[1] \in rdr.accept
          /\ rdr.consulted =
                IF IsOnePath(rdr.path) THEN <<rdr.path.items[1]>> ELSE <<>>
    /\ rdr.out # <<>> =>
          /\ rdr.read = <<rdr.path>>
          /\ Len(rdr.out) = 1 /\ Len(rdr.out[1]) = 1 /\ rdr.out[1][1] = None

\* The loader has run for a one-element list whose element is accepted, while
\* another path is not accepted.
C12_Witness ==
    /\ rdr.path.isList /\ Len(rdr.path.items) = 1
    /\ rdr.result = "reader_function"
    /\ rdr.out = << <<None>> >>
    /\ rdr.read = <<rdr.path>>
    /\ rdr.accept # Paths

\* C13: assigning to an Array's layer attribute a value other than the bound
\* one (a layer, another layer, or None) emits, in this order and nothing else:
\* one loaded event of the Array, one loaded event of each ancestor from the
\* parent to the root carrying it, one visible event of the Array, one visible
\* event of each ancestor carrying that; when a layer is bound the Array has
\* that layer's name already at both of its events.  Assigning the bound value
\* emits nothing.
C13_LayerChange(st, a, new) ==
    LET anc == ArrayAncestors(arrays, groups, a)
        k == Len(anc)
    IN  IF new = arrays[a].layer THEN st.log = <<>> /\ st.seen = <<>>
        ELSE /\ ~st.err
             /\ Len(st.log) = 2 * k + 2
             /\ st.log[1] = Event(a, FALSE, "loaded", BoolStr(new # None), 0, "layer")
             /\ \A i \in 1..k :
                   /\ st.log[1 + i].isGroup /\ st.log[1 + i].node = anc[i]
                   /\ st.log[1 + i].kind = "loaded" /\ st.log[1 + i].src = 1
             /\ st.log[k + 2] =
                   Event(a, FALSE, "visible",
                         BoolStr(new # None /\ layers[new].visible), 0, "layer")
             /\ \A i \in 1..k :
                   /\ st.log[k + 2 + i].isGroup /\ st.log[k + 2 + i].node = anc[i]
                   /\ st.log[k + 2 + i].kind = "visible" /\ st.log[k + 2 + i].src = k + 2
             /\ Len(st.seen) = 2
             /\ new # None =>
                   /\ st.seen = <<layers[new].name, layers[new].name>>
                   /\ st.arrays[a].name = layers[new].name

C13_LayerChangeEvents ==
    \A a \in DOMAIN arrays, new \in Layers \cup {None} :
        C13_LayerChange(Array_setattr_layer(St, a, new), a, new)

\* The last operation gave a new layer to an Array two groups deep: its loaded
\* event went to the parent and the root, then its visible event did.
C13_Witness ==
    \E a \in DOMAIN arrays :
        /\ Len(ArrayAncestors(arrays, groups, a)) = 2
        /\ arrays[a].layer # None
        /\ Len(log) = 6
        /\ log[1] = Event(a, FALSE, "loaded", TriTrue, 0, "layer")
        /\ log[4].node = a /\ log[4].kind = "visible" /\ ~log[4].isGroup
        /\ log[3].isGroup /\ log[3].kind = "loaded"
        /\ log[6].isGroup /\ log[6].kind = "visible"

\* C14: one rename of an Array, one rename of a layer and one assignment of an
\* Array's layer attribute each run a bounded number of the handlers
\* _on_name_event, _on_layer_name_event and _on_layer_event and raise nothing:
\* at most one, plus two for each Array observing the layer's name, for a rename
\* (two for a binding); writing the current name runs none; and once an
\* operation is done, writing the same name again runs none.
C14_NameSyncBounded ==
    /\ \A a \in DOMAIN arrays, n \in Names :
          LET st == Array_set_name(St, a, n)
              l == arrays[a].layer
          IN  /\ ~st.err
              /\ n = arrays[a].name => st.calls = 0
              /\ n # arrays[a].name =>
                    /\ st.calls >= 1
                    /\ st.calls <= 1 + (IF l = None THEN 0 ELSE 2 * Len(layers[l].nameCbs))
                    /\ st.arrays[a].name = n
              /\ Array_set_name([st EXCEPT !.calls = 0], a, n).calls = 0
    /\ \A l \in Layers, n \in Names :
          LET st == Layer_set_name(St, l, n)
          IN  /\ ~st.err
              /\ n = layers[l].name => st.calls = 0
              /\ st.calls <= 2 * Len(layers[l].nameCbs)
              /\ st.layers[l].name = n
              /\ Layer_set_name([st EXCEPT !.calls = 0], l, n).calls = 0
    /\ \A a \in DOMAIN arrays, l \in Layers \cup {None} :
          LET st == Array_setattr_layer(St, a, l)
          IN  /\ ~st.err
              /\ st.calls <= 2
              /\ l = arrays[a].layer => st.calls = 0

\* Two Arrays observe layer L1 and all three have the same name after a
\* rename; renaming one Array again runs four handlers (its own two, the other
\* Array's two) and renames all three.
C14_Witness ==
    \E a, b \in DOMAIN arrays :
        /\ a # b
        /\ a \in Range(layers["L1"].nameCbs) /\ b \in Range(layers["L1"].nameCbs)
        /\ arrays[a].name = "b" /\ arrays[b].name = "b" /\ layers["L1"].name = "b"
        /\ LET st == Array_set_name(St, a, "a")
           IN  /\ st.calls = 4
               /\ st.arrays[b].name = "a" /\ st.layers["L1"].name = "a"

\* No element occurs twice in the sequence.
SubscribedOnce(cbs) == \A i, j \in DOMAIN cbs : cbs[i] = cbs[j] => i = j

\* C15: iter_arrays(recursive=True) yields each descendant Array of the group
\* once and no other; of two Arrays of one group the one earlier in the
\* group's arrays comes first, an Array of a group comes before every Array
\* below that group, and otherwise the Array under the earlier child of the
\* lowest common group comes first.  iter_children(recursive=True) yields each
\* descendant Group once and no other, the direct children first and in order,
\* then what iter_children(recursive=True) yields for each child in turn.
\* With recursive=False they yield the group's arrays and children as they are.
\* (The iterations are functions of the tree, so a second call on an unchanged
\* tree yields the same sequence.)
IndexIn(seq, e) == CHOOSE i \in DOMAIN seq : seq[i] = e

\* The positions, in the children collections, that lead from group g down to
\* group h of its subtree.
RECURSIVE ChildPath(_, _)
ChildPath(g, h) ==
    IF h = g THEN <<>>
    ELSE ChildPath(g, groups[h].parent)
            \o <<IndexIn(groups[groups[h].parent].children, h)>>

RECURSIVE PathBefore(_, _)
PathBefore(p, q) ==
    IF p = <<>> THEN q # <<>>
    ELSE IF q = <<>> THEN FALSE
    ELSE IF Head(p) # Head(q) THEN Head(p) < Head(q)
    ELSE PathBefore(Tail(p), Tail(q))

ArrayBefore(g, x, y) ==
    LET p == ChildPath(g, arrays[x].parent)
        q == ChildPath(g, arrays[y].parent)
    IN  IF p = q
        THEN IndexIn(groups[arrays[x].parent].arrays, x)
                < IndexIn(groups[arrays[y].parent].arrays, y)
        ELSE PathBefore(p, q)

RECURSIVE Flatten(_)
Flatten(seqs) == IF seqs = <<>> THEN <<>> ELSE Head(seqs) \o Flatten(Tail(seqs))

C15_IterationOrder ==
    \A g \in DOMAIN groups :
        LET ia == iter_arrays(Cur, g, TRUE)
            ic == iter_children(Cur, g, TRUE)
            cs == groups[g].children
        IN  /\ SubscribedOnce(ia) /\ Range(ia) = Descendants(g)
            /\ \A i, j \in DOMAIN ia : i < j => ArrayBefore(g, ia[i], ia[j])
            /\ SubscribedOnce(ic) /\ Range(ic) = SubtreeGroups(groups, g) \ {g}
            /\ ic = cs \o Flatten([i \in DOMAIN cs |-> iter_children(Cur, cs[i], TRUE)])
            /\ iter_arrays(Cur, g, FALSE) = groups[g].arrays
            /\ iter_children(Cur, g, FALSE) = cs

\* A group whose second child was created before its first and whose first
\* child has a child of its own: the arrays come by child position and the
\* grandchild comes after both children.
C15_Witness ==
    \E g, c, d, e \in DOMAIN groups : \E x, y \in DOMAIN arrays :
        /\ groups[g].children = <<c, d>> /\ d < c
        /\ groups[c].children = <<e>>
        /\ groups[e].arrays = <<x>> /\ groups[d].arrays = <<y>>
        /\ iter_arrays(Cur, g, TRUE) = <<x, y>>
        /\ iter_children(Cur, g, TRUE) = <<c, d, e>>
        /\ iter_children(Cur, g, FALSE) = <<c, d>>

\* C16: Group.from_group(g) creates a new root Group, and under it new Groups
\* and Arrays only, that mirror g level by level: the same group name, as many
\* arrays with the same names and array_grouping_groups items in the same
\* order, as many children in the same order, each mirroring its original and
\* each linked to its new parent; every Array, Group and layer that existed
\* before is as it was.
RECURSIVE Mirrors(_, _, _)
Mirrors(st, g, c) ==
    LET old == st.groups[g]
        new == st.groups[c]
    IN  /\ c \notin DOMAIN groups
        /\ new.name = old.name
        /\ Len(new.arrays) = Len(old.arrays)
        /\ \A i \in DOMAIN old.arrays :
              /\ new.arrays[i] \notin DOMAIN arrays
              /\ st.arrays[new.arrays[i]].name = st.arrays[old.arrays[i]].name
              /\ st.arrays[new.arrays[i]].agg = st.arrays[old.arrays[i]].agg
              /\ st.arrays[new.arrays[i]].parent = c
        /\ Len(new.children) = Len(old.children)
        /\ \A i \in DOMAIN old.children :
              /\ st.groups[new.children[i]].parent = c
              /\ Mirrors(st, old.children[i], new.children[i])

C16_FromGroupMirrors ==
    \A g \in DOMAIN groups :
        LET st == from_group(St, g)
            c == Len(groups) + 1
        IN  /\ st.groups[c].parent = NoParent
            /\ Mirrors(st, g, c)
            /\ SubtreeGroups(st.groups, c) = DOMAIN st.groups \ DOMAIN groups
            /\ SubtreeArrays(st.arrays, st.groups, c) = DOMAIN st.arrays \ DOMAIN arrays
            /\ \A a \in DOMAIN arrays : st.arrays[a] = arrays[a]
            /\ \A h \in DOMAIN groups : st.groups[h] = groups[h]
            /\ st.layers = layers

\* Group 3 is the clone from_group made of group 1, which has a child holding
\* an Array with a layer and an array_grouping_groups item.
C16_Witness ==
    /\ Len(groups) = 4 /\ Len(arrays) = 2
    /\ groups[1].children = <<2>> /\ groups[3].children = <<4>>
    /\ groups[2].arrays = <<1>> /\ groups[4].arrays = <<2>>
    /\ arrays[1].agg = {<<"k", "x">>} /\ arrays[2].agg = {<<"k", "x">>}
    /\ arrays[1].layer = "L1"
    /\ groups[3].parent = NoParent /\ groups[1].parent = NoParent
    /\ groups[3].name = groups[1].name /\ groups[4].name = groups[2].name

\* C17: each Array is among the name callbacks and among the visible callbacks
\* of its bound layer at most, once in each, and of both or of neither; hence
\* no rename or visibility change of a layer, no rename of an Array and no
\* assignment of an Array's layer attribute (the same layer and None included)
\* makes 'assert self.layer is not None' fail in _on_layer_name_event or
\* _on_layer_visible_event.
C17_LayerAssertsHold ==
    /\ \A l \in Layers :
          /\ SubscribedOnce(layers[l].nameCbs) /\ SubscribedOnce(layers[l].visCbs)
          /\ Range(layers[l].nameCbs) = Range(layers[l].visCbs)
          /\ \A a \in Range(layers[l].nameCbs) : arrays[a].layer = l
    /\ \A l \in Layers :
          /\ \A n \in Names : ~Layer_set_name(St, l, n).err
          /\ \A v \in BOOLEAN : ~Layer_set_visible(St, l, v).err
    /\ \A a \in DOMAIN arrays :
          /\ \A n \in Names : ~Array_set_name(St, a, n).err
          /\ \A new \in Layers \cup {None} :
                LET st == Array_setattr_layer(St, a, new)
                IN  /\ ~st.err
                    /\ \A l \in Layers :
                          /\ \A n \in Names : ~Layer_set_name(st, l, n).err
                          /\ \A v \in BOOLEAN : ~Layer_set_visible(st, l, v).err

\* The last operation unbound an Array; it observes no layer now, while another Array observes L1, whose name is no
\* longer the one it started with.
C17_Witness ==
    \E a, b \in DOMAIN arrays :
        /\ a # b
        /\ arrays[a].layer = None
        /\ log # <<>> /\ log[1] = Event(a, FALSE, "loaded", TriFalse, 0, "layer")
        /\ \A l \in Layers : a \notin Range(layers[l].nameCbs) \cup Range(layers[l].visCbs)
        /\ b \in Range(layers["L1"].nameCbs)
        /\ layers["L1"].name = "b"

\* C18: after Group.hide the group's visible aggregate is False; after
\* Group.show it is True when the group has a loaded descendant and False when
\* it has none; neither raises nor changes the group's loaded aggregate; and a
\* second show (hide) leaves arrays, groups and layers as the first left them.
SameObjects(s, t) ==
    s.arrays = t.arrays /\ s.groups = t.groups /\ s.layers = t.layers

C18_ShowHideAggregate ==
    \A g \in DOMAIN groups :
        LET sh == Group_show(St, g)
            hd == Group_hide(St, g)
        IN  /\ ~sh.err /\ ~hd.err
            /\ Group_visible(hd, g) = TriFalse
            /\ Group_visible(sh, g) = BoolStr(LoadedDescendants(g) # {})
            /\ Group_loaded(sh, g) = Group_loaded(St, g)
            /\ Group_loaded(hd, g) = Group_loaded(St, g)
            /\ SameObjects(Group_show(sh, g), sh)
            /\ SameObjects(Group_hide(hd, g), hd)
            /\ Group_visible(Group_show(hd, g), g) = Group_visible(sh, g)

\* A group with a loaded Array in a child group and an Array without a layer
\* has just been hidden: its aggregate is False, its last event says so, and
\* showing it makes the aggregate True.
C18_Witness ==
    \E g \in DOMAIN groups :
        /\ \E a \in LoadedDescendants(g) : arrays[a].parent # g
        /\ Descendants(g) # LoadedDescendants(g)
        /\ Group_visible(Cur, g) = TriFalse
        /\ log # <<>> /\ log[Len(log)].isGroup /\ log[Len(log)].node = g
        /\ log[Len(log)].kind = "visible" /\ log[Len(log)].value = TriFalse
        /\ Group_visible(Group_show(St, g), g) = TriTrue

\* C19: in every reachable state a visible Array is loaded, a Group whose
\* loaded state is False has visible state False, and a Group whose visible
\* state is True or None has a loaded state other than False; and after one
\* change (an assignment to an Array's layer attribute, or to a layer's
\* visible flag) every loaded event and every visible event a Group emitted for
\* it carries the Group's loaded, respectively visible, state as computed on the
\* tree after the change.
GroupEventsTrue(st) ==
    \A i \in DOMAIN st.log :
        st.log[i].isGroup =>
            st.log[i].value = IF st.log[i].kind = "loaded"
                              THEN Group_loaded(st, st.log[i].node)
                              ELSE Group_visible(st, st.log[i].node)

C19_DerivedStatesConsistent ==
    /\ \A a \in DOMAIN arrays : Array_visible(Cur, a) => Array_loaded(Cur, a)
    /\ \A g \in DOMAIN groups :
          /\ Group_loaded(Cur, g) = TriFalse => Group_visible(Cur, g) = TriFalse
          /\ Group_visible(Cur, g) \in {TriTrue, None} => Group_loaded(Cur, g) # TriFalse
    /\ \A a \in DOMAIN arrays, new \in Layers \cup {None} :
          GroupEventsTrue(Array_setattr_layer(St, a, new))
    /\ \A l \in Layers, v \in BOOLEAN :
          GroupEventsTrue(Layer_set_visible(St, l, v))

\* One Array of a group is loaded and visible and another has no layer: the
\* group's loaded state is None and its visible state True, and the last
\* operation's events of the group say so.
C19_Witness ==
    \E g \in DOMAIN groups :
        /\ Group_loaded(Cur, g) = None
        /\ Group_visible(Cur, g) = TriTrue
        /\ \E i, j \in DOMAIN log :
              /\ log[i].isGroup /\ log[i].node = g /\ log[i].kind = "loaded"
              /\ log[i].value = None
              /\ log[j].isGroup /\ log[j].node = g /\ log[j].kind = "visible"
              /\ log[j].value = TriTrue

\* C20 as claimed: read_dataset is only ever given a completely downloaded
\* file; once the file is complete no call fetches again; a call whose fetch
\* fails raises the network error without reading the dataset or adding a dock
\* widget; and while the file is not complete the next call fetches again.
C20_OnlyCompleteFileRead ==
    /\ \A i \in DOMAIN smp.reads : smp.reads[i] = "complete"
    /\ smp.raised = "network" => smp.fetched /\ ~smp.read /\ smp.added = 0
    /\ \A net \in NetOutcomes, cur \in Viewers \cup {None} :
          LET s == make_sample_data(smp, net, cur)
          IN  s.fetched <=> smp.file # "complete"

====
